---- MODULE Spec2Model ----
(***************************************************************************)
(* Proxy Cache for the iNaturalist API (src/main.ts): an in-memory cache   *)
(* Map, a GlobalRateLimiter gating upstream fetches through a Deno KV      *)
(* timestamp updated by compare-and-swap, and the relay handler            *)
(* app.get("/api/inat/*") that ties them together.                         *)
(*                                                                         *)
(* Time is measured in units of the backoff step (50 ms), which divides    *)
(* every duration of the program (100 ms, 1000 ms, 60 days).               *)
(***************************************************************************)
EXTENDS Integers, Sequences, FiniteSets, TLC

\* ------------------------------------------------------------------ bounds
\* maxRetries of the limiter (a constructor argument), the number of clock
\* steps, and the number of requests the relay takes in.
MaxRetries == 2
MaxTicks == 2
MaxRequests == 2

\* ------------------------------------------------------- program constants
RequestsPerSecond == 1
RetryDelayMs == 100
BackoffStepMs == 50

Unit == BackoffStepMs
minInterval == (1000 \div RequestsPerSecond) \div Unit
maxRetries == MaxRetries
retryDelay == RetryDelayMs \div Unit
CACHE_DURATION == 60 * 24 * 60 * 60 * (1000 \div Unit)

\* How far the clock moves in one step of the model: half the minimum
\* interval, or a whole cache lifetime.
TimeStep == minInterval \div 2

\* Date.now() when the program starts: the smallest value for which a first
\* call still finds the interval elapsed since timestamp 0.
StartTime == minInterval

\* The request handlers that can be in flight together.
Procs == {"h1", "h2"}

\* The inbound requests: the path after /api/inat and the query parameters in
\* the order the client sent them.
Inbound ==
    { [path |-> "/taxa", query |-> <<"id=5", "per_page=1">>],
      [path |-> "/taxa", query |-> <<"per_page=1", "id=5">>] }

\* searchParams.toString(): the parameters in the order they were sent
RECURSIVE queryString(_)
queryString(q) ==
    IF q = << >> THEN ""
    ELSE IF Len(q) = 1 THEN q[1]
    ELSE q[1] \o "&" \o queryString(Tail(q))

\* `https://api.inaturalist.org${inatPath}${queryString ? "?" + queryString : ""}`
inatUrl(req) ==
    "https://api.inaturalist.org" \o req.path \o
        (IF queryString(req.query) # "" THEN "?" \o queryString(req.query)
                                        ELSE "")

\* const cacheKey = inatUrl
Keys == {inatUrl(req) : req \in Inbound}

\* ------------------------------------------------------------ the upstream
DefaultContentType == "application/json"

\* What fetch() can resolve to: ok with or without a content-type header,
\* or a non-success status.
UpstreamResponses ==
    { [ok |-> TRUE, status |-> 200, body |-> "b1", ctype |-> ""],
      [ok |-> TRUE, status |-> 200, body |-> "b2", ctype |-> "text/csv"],
      [ok |-> FALSE, status |-> 404, body |-> "nf", ctype |-> "text/html"] }

NoResponse == [ok |-> FALSE, status |-> 0, body |-> "", ctype |-> ""]

\* x || "application/json"
OrDefault(ctype) == IF ctype = "" THEN DefaultContentType ELSE ctype

\* ------------------------------------------------------------- the replies
NoReply == [status |-> 0, xcache |-> "", body |-> "", contentType |-> "",
            error |-> "", message |-> ""]

\* The hit ignores the stored content type.
HitReply_DefaultType(cached) ==
    [status |-> 200, xcache |-> "HIT", body |-> cached.data,
     contentType |-> DefaultContentType, error |-> "", message |-> ""]

HitReply(cached) ==
    [status |-> 200, xcache |-> "HIT", body |-> cached.data,
     contentType |-> OrDefault(cached.headers), error |-> "", message |-> ""]

MissReply(data, contentType) ==
    [status |-> 200, xcache |-> "MISS", body |-> data,
     contentType |-> contentType, error |-> "", message |-> ""]

\* The catch answers with the default status.
ErrorReply_AsSuccess(message) ==
    [status |-> 200, xcache |-> "", body |-> "", contentType |-> DefaultContentType,
     error |-> "Proxy Error", message |-> message]

ErrorReply(message) ==
    [status |-> 500, xcache |-> "", body |-> "", contentType |-> DefaultContentType,
     error |-> "Proxy Error", message |-> message]

RateLimitMessage == "Rate limit: maximo de tentativas excedido"
UpstreamMessage == "iNaturalist API error"
TransportMessage == "fetch failed"

\* ------------------------------------------------------------------- state
VARIABLES
    clock,        \* Date.now(), in units
    kv,           \* the Deno KV record ["rate_limit", "inat_api"]
    cache,        \* the module-level Map
    pc,           \* where each request handler is
    cacheKey,     \* the handler's cacheKey
    retries,      \* execute's retries
    now,          \* acquireLock's now
    result,       \* acquireLock's result of kv.get
    wakeAt,       \* when the setTimeout of the backoff fires
    response,     \* the handler's response (of the upstream)
    reply,        \* what the handler returned
    attempts,     \* acquireLock calls made by the current execute
    kvOps,        \* kv reads and commits issued by the current request
    grants,       \* commits of the current request that succeeded
    calls,        \* invocations of fn by the current request
    puts,         \* cache.set calls of the current request
    waited,       \* sum of the backoff waits of the current execute
    grantLog,     \* every committed update, in commit order
    upstreamLog,  \* the clock at every initiation of an upstream fetch
    requests,     \* how many requests the relay has taken in
    cleared,      \* keys emptied by cache.clear() and not set since
    stats,        \* what getStats returned last
    sweptAt       \* the timestamp of the last /health reply, 0 before any

vars == <<clock, kv, cache, pc, cacheKey, retries, now, result, wakeAt,
          response, reply, attempts, kvOps, grants, calls, puts, waited,
          grantLog, upstreamLog, requests, cleared, stats, sweptAt>>

limiterVars == <<retries, now, result, wakeAt>>
counterVars == <<attempts, kvOps, grants, calls, puts, waited>>
adminVars == <<cleared, stats, sweptAt>>

\* getStats has not been called
NoStats == [lastRequest |-> 0, queueWaitEstimate |-> 0, called |-> FALSE]

NoResult == [present |-> FALSE, value |-> 0, versionstamp |-> 0]

Init ==
    /\ clock = StartTime
    /\ kv = NoResult
    /\ cache = << >>
    /\ pc = [p \in Procs |-> "idle"]
    /\ cacheKey = [p \in Procs |-> ""]
    /\ retries = [p \in Procs |-> 0]
    /\ now = [p \in Procs |-> 0]
    /\ result = [p \in Procs |-> NoResult]
    /\ wakeAt = [p \in Procs |-> 0]
    /\ response = [p \in Procs |-> NoResponse]
    /\ reply = [p \in Procs |-> NoReply]
    /\ attempts = [p \in Procs |-> 0]
    /\ kvOps = [p \in Procs |-> 0]
    /\ grants = [p \in Procs |-> 0]
    /\ calls = [p \in Procs |-> 0]
    /\ puts = [p \in Procs |-> 0]
    /\ waited = [p \in Procs |-> 0]
    /\ grantLog = << >>
    /\ upstreamLog = << >>
    /\ requests = 0
    /\ cleared = {}
    /\ stats = NoStats
    /\ sweptAt = 0

\* ------------------------------------------------------------------- clock
Elapsed == clock - StartTime

\* Time passes between any two steps of the handlers.
Tick ==
    /\ (Elapsed % CACHE_DURATION) + TimeStep <= MaxTicks * TimeStep
    /\ clock' = clock + TimeStep
    /\ UNCHANGED <<kv, cache, pc, cacheKey, limiterVars, response, reply,
                   counterVars, grantLog, upstreamLog, requests, adminVars>>

\* A whole cache lifetime passes; no request stays in flight that long.
Jump ==
    /\ Elapsed < CACHE_DURATION
    /\ \A p \in Procs : pc[p] \in {"idle", "done"}
    /\ clock' = clock + CACHE_DURATION
    /\ UNCHANGED <<kv, cache, pc, cacheKey, limiterVars, response, reply,
                   counterVars, grantLog, upstreamLog, requests, adminVars>>

\* ------------------------------------------------------------- Cache Store
\* The entry is still served at the very end of its lifetime.
IsFresh_Inclusive(cached, t) == t - cached.timestamp <= CACHE_DURATION

\* cached && Date.now() - cached.timestamp < CACHE_DURATION
IsFresh(cached, t) == t - cached.timestamp < CACHE_DURATION

CacheHit(k, t) == k \in DOMAIN cache /\ IsFresh(cache[k], t)

\* A refresh writes the payload into the entry that is there and keeps its
\* headers.
CacheSet_Merge(c, k, entry) ==
    [x \in (DOMAIN c) \cup {k} |->
        IF x # k THEN c[x]
        ELSE IF k \in DOMAIN c THEN [entry EXCEPT !.headers = c[k].headers]
        ELSE entry]

\* cache.set(cacheKey, {data, timestamp, headers})
CacheSet(c, k, entry) ==
    [x \in (DOMAIN c) \cup {k} |-> IF x = k THEN entry ELSE c[x]]

\* ------------------------------------------------------ GlobalRateLimiter
\* A missing timestamp counts as a grant made just now.
lastRequest_AbsentIsNow(res) == IF res.present THEN res.value ELSE clock

\* (result.value as number) || 0
lastRequest(res) == IF res.present THEN res.value ELSE 0

\* The wait is computed before retries is incremented.
waitTime_BeforeIncrement(r) == retryDelay + (r - 1) * (BackoffStepMs \div Unit)

\* retryDelay + retries * 50
waitTime(r) == retryDelay + r * (BackoffStepMs \div Unit)

\* The interval test looks at the distance only, not at its sign.
TooSoon_Abs(t, res) ==
    (IF t < lastRequest(res) THEN lastRequest(res) - t ELSE t - lastRequest(res))
        < minInterval

\* now - lastRequest < minInterval: the slot is refused without a commit
TooSoon(t, res) == t - lastRequest(res) < minInterval

\* The commit goes through without comparing the versionstamp.
CheckPasses_Unchecked(res) == res.versionstamp <= kv.versionstamp

\* kv.atomic().check(result): the versionstamp read is still the stored one
CheckPasses(res) == res.versionstamp = kv.versionstamp

\* kv.atomic().check(result).set(lockKey, now).commit()
Committed(t) ==
    [present |-> TRUE, value |-> t, versionstamp |-> kv.versionstamp + 1]

\* retries++; waitTime; setTimeout(resolve, waitTime)
Backoff(p) ==
    /\ retries' = [retries EXCEPT ![p] = @ + 1]
    /\ wakeAt' = [wakeAt EXCEPT ![p] = clock + waitTime(retries[p] + 1)]
    /\ waited' = [waited EXCEPT ![p] = @ + waitTime(retries[p] + 1)]
    /\ now' = [now EXCEPT ![p] = 0]
    /\ result' = [result EXCEPT ![p] = NoResult]
    /\ pc' = [pc EXCEPT ![p] = "sleep"]

\* The loop gives up one attempt early.
LoopTop_OneShort(p, r, a) ==
    IF r + 1 < maxRetries
    THEN /\ now' = [now EXCEPT ![p] = clock]
         /\ attempts' = [attempts EXCEPT ![p] = a + 1]
         /\ pc' = [pc EXCEPT ![p] = "get"]
         /\ reply' = [reply EXCEPT ![p] = NoReply]
    ELSE /\ now' = [now EXCEPT ![p] = 0]
         /\ attempts' = [attempts EXCEPT ![p] = a]
         /\ reply' = [reply EXCEPT ![p] = ErrorReply(RateLimitMessage)]
         /\ pc' = [pc EXCEPT ![p] = "done"]

\* Past the loop the action is run anyway instead of throwing.
LoopTop_RunAnyway(p, r, a) ==
    IF r < maxRetries
    THEN /\ now' = [now EXCEPT ![p] = clock]
         /\ attempts' = [attempts EXCEPT ![p] = a + 1]
         /\ pc' = [pc EXCEPT ![p] = "get"]
         /\ reply' = [reply EXCEPT ![p] = NoReply]
    ELSE /\ now' = [now EXCEPT ![p] = 0]
         /\ attempts' = [attempts EXCEPT ![p] = a]
         /\ reply' = [reply EXCEPT ![p] = NoReply]
         /\ pc' = [pc EXCEPT ![p] = "granted"]

\* Past the loop nothing is thrown: the call stays where it is.
LoopTop_Hangs(p, r, a) ==
    IF r < maxRetries
    THEN /\ now' = [now EXCEPT ![p] = clock]
         /\ attempts' = [attempts EXCEPT ![p] = a + 1]
         /\ pc' = [pc EXCEPT ![p] = "get"]
         /\ reply' = [reply EXCEPT ![p] = NoReply]
    ELSE /\ now' = [now EXCEPT ![p] = 0]
         /\ attempts' = [attempts EXCEPT ![p] = a]
         /\ reply' = [reply EXCEPT ![p] = NoReply]
         /\ pc' = [pc EXCEPT ![p] = "sleep"]

\* while (retries < maxRetries) { acquireLock(): now = Date.now(); kv.get ...
\* and, past the loop, the throw that the handler's catch turns into a reply.
\* r is execute's retries, a the acquireLock calls it has made so far.
LoopTop(p, r, a) ==
    IF r < maxRetries
    THEN /\ now' = [now EXCEPT ![p] = clock]
         /\ attempts' = [attempts EXCEPT ![p] = a + 1]
         /\ pc' = [pc EXCEPT ![p] = "get"]
         /\ reply' = [reply EXCEPT ![p] = NoReply]
    ELSE /\ now' = [now EXCEPT ![p] = 0]
         /\ attempts' = [attempts EXCEPT ![p] = a]
         /\ reply' = [reply EXCEPT ![p] = ErrorReply(RateLimitMessage)]
         /\ pc' = [pc EXCEPT ![p] = "done"]

\* ------------------------------------------------------------- Proxy Relay
\* A hit is counted against the rate limit: it stamps the shared record.
ServeFromCache_Stamps(p, k) ==
    /\ reply' = [reply EXCEPT ![p] = HitReply(cache[k])]
    /\ pc' = [pc EXCEPT ![p] = "done"]
    /\ attempts' = [attempts EXCEPT ![p] = 0]
    /\ now' = [now EXCEPT ![p] = 0]
    /\ kv' = Committed(clock)
    /\ UNCHANGED grantLog

\* Cache HIT: return new Response(cached.data, {headers}) without going
\* near the rate limiter
ServeFromCache(p, k) ==
    /\ reply' = [reply EXCEPT ![p] = HitReply(cache[k])]
    /\ pc' = [pc EXCEPT ![p] = "done"]
    /\ attempts' = [attempts EXCEPT ![p] = 0]
    /\ now' = [now EXCEPT ![p] = 0]
    /\ UNCHANGED <<kv, grantLog>>

\* app.get("/api/inat/*"): the cache check, and on a miss the synchronous
\* start of globalRateLimiter.execute up to its first await.
Request(p, k) ==
    /\ pc[p] \in {"idle", "done"}
    /\ requests < MaxRequests
    /\ requests' = requests + 1
    /\ cacheKey' = [cacheKey EXCEPT ![p] = k]
    /\ response' = [response EXCEPT ![p] = NoResponse]
    /\ kvOps' = [kvOps EXCEPT ![p] = 0]
    /\ grants' = [grants EXCEPT ![p] = 0]
    /\ calls' = [calls EXCEPT ![p] = 0]
    /\ puts' = [puts EXCEPT ![p] = 0]
    /\ waited' = [waited EXCEPT ![p] = 0]
    /\ retries' = [retries EXCEPT ![p] = 0]
    /\ result' = [result EXCEPT ![p] = NoResult]
    /\ wakeAt' = [wakeAt EXCEPT ![p] = 0]
    /\ IF CacheHit(k, clock)
       THEN ServeFromCache(p, k)
       ELSE LoopTop(p, 0, 0) /\ UNCHANGED <<kv, grantLog>>
    /\ UNCHANGED <<clock, cache, upstreamLog, adminVars>>

\* await kv.get(lockKey), then the interval test of acquireLock
KvGet(p) ==
    /\ pc[p] = "get"
    /\ kvOps' = [kvOps EXCEPT ![p] = @ + 1]
    /\ IF TooSoon(now[p], kv)
       THEN Backoff(p)
       ELSE /\ result' = [result EXCEPT ![p] = kv]
            /\ pc' = [pc EXCEPT ![p] = "commit"]
            /\ UNCHANGED <<retries, now, wakeAt, waited>>
    /\ UNCHANGED <<clock, kv, cache, cacheKey, response, reply, attempts,
                   grants, calls, puts, grantLog, upstreamLog, requests, adminVars>>

\* await kv.atomic().check(result).set(lockKey, now).commit(); return success.ok
Commit(p) ==
    /\ pc[p] = "commit"
    /\ kvOps' = [kvOps EXCEPT ![p] = @ + 1]
    /\ IF CheckPasses(result[p])
       THEN /\ kv' = Committed(now[p])
            /\ grants' = [grants EXCEPT ![p] = @ + 1]
            /\ grantLog' = Append(grantLog,
                   [value |-> now[p], read |-> result[p].versionstamp])
            /\ now' = [now EXCEPT ![p] = 0]
            /\ result' = [result EXCEPT ![p] = NoResult]
            /\ pc' = [pc EXCEPT ![p] = "granted"]
            /\ UNCHANGED <<retries, wakeAt, waited>>
       ELSE /\ Backoff(p)
            /\ UNCHANGED <<kv, grants, grantLog>>
    /\ UNCHANGED <<clock, cache, cacheKey, response, reply, attempts,
                   calls, puts, upstreamLog, requests, adminVars>>

\* if (canExecute) return await fn(): the fetch of the upstream is started
Invoke(p) ==
    /\ pc[p] = "granted"
    /\ calls' = [calls EXCEPT ![p] = @ + 1]
    /\ upstreamLog' = Append(upstreamLog, clock)
    /\ pc' = [pc EXCEPT ![p] = "fetch"]
    /\ UNCHANGED <<clock, kv, cache, cacheKey, limiterVars, response, reply,
                   attempts, kvOps, grants, puts, waited, grantLog, requests, adminVars>>

\* A non-success response is cached like any other before the error reply.
FetchReturn_CachesError(p, r) ==
    /\ pc[p] = "fetch"
    /\ IF r.ok
       THEN /\ response' = [response EXCEPT ![p] = r]
            /\ pc' = [pc EXCEPT ![p] = "text"]
            /\ UNCHANGED <<reply, cache>>
       ELSE /\ response' = [response EXCEPT ![p] = NoResponse]
            /\ pc' = [pc EXCEPT ![p] = "done"]
            /\ reply' = [reply EXCEPT ![p] = ErrorReply(UpstreamMessage)]
            /\ cache' = CacheSet(cache, cacheKey[p],
                   [data |-> r.body, timestamp |-> clock,
                    headers |-> OrDefault(r.ctype)])
    /\ UNCHANGED <<clock, kv, cacheKey, limiterVars, counterVars,
                   grantLog, upstreamLog, requests, adminVars>>

\* the fetch resolves; if (!response.ok) throw, caught by the handler
FetchReturn(p, r) ==
    /\ pc[p] = "fetch"
    /\ IF r.ok
       THEN /\ response' = [response EXCEPT ![p] = r]
            /\ pc' = [pc EXCEPT ![p] = "text"]
            /\ UNCHANGED reply
       ELSE /\ response' = [response EXCEPT ![p] = NoResponse]
            /\ pc' = [pc EXCEPT ![p] = "done"]
            /\ reply' = [reply EXCEPT ![p] = ErrorReply(UpstreamMessage)]
    /\ UNCHANGED <<clock, kv, cache, cacheKey, limiterVars, counterVars,
                   grantLog, upstreamLog, requests, adminVars>>

\* A failure of the action is treated like a refused slot: back off, retry.
FetchFail_Retries(p) ==
    /\ pc[p] \in {"fetch", "text"}
    /\ Backoff(p)
    /\ response' = [response EXCEPT ![p] = NoResponse]
    /\ UNCHANGED <<clock, kv, cache, cacheKey, reply, attempts, kvOps,
                   grants, calls, puts, grantLog, upstreamLog, requests, adminVars>>

\* A failed action gives its slot back: the record is deleted.
FetchFail_Rollback(p) ==
    /\ pc[p] \in {"fetch", "text"}
    /\ pc' = [pc EXCEPT ![p] = "done"]
    /\ reply' = [reply EXCEPT ![p] = ErrorReply(TransportMessage)]
    /\ response' = [response EXCEPT ![p] = NoResponse]
    /\ kv' = [present |-> FALSE, value |-> 0,
              versionstamp |-> kv.versionstamp + 1]
    /\ UNCHANGED <<clock, cache, cacheKey, limiterVars,
                   counterVars, grantLog, upstreamLog, requests, adminVars>>

\* the fetch, or the reading of the body, rejects: execute rethrows the
\* error as it is and the handler's catch replies
FetchFail(p) ==
    /\ pc[p] \in {"fetch", "text"}
    /\ pc' = [pc EXCEPT ![p] = "done"]
    /\ reply' = [reply EXCEPT ![p] = ErrorReply(TransportMessage)]
    /\ response' = [response EXCEPT ![p] = NoResponse]
    /\ UNCHANGED <<clock, kv, cache, cacheKey, limiterVars,
                   counterVars, grantLog, upstreamLog, requests, adminVars>>

\* data = await response.text(); contentType; cache.set(...); return
ReadBody(p) ==
    /\ pc[p] = "text"
    /\ LET data == response[p].body
           contentType == OrDefault(response[p].ctype)
       IN /\ cache' = CacheSet(cache, cacheKey[p],
                 [data |-> data, timestamp |-> clock, headers |-> contentType])
          /\ reply' = [reply EXCEPT ![p] = MissReply(data, contentType)]
    /\ puts' = [puts EXCEPT ![p] = @ + 1]
    /\ pc' = [pc EXCEPT ![p] = "done"]
    /\ response' = [response EXCEPT ![p] = NoResponse]
    /\ cleared' = cleared \ {cacheKey[p]}
    /\ UNCHANGED <<clock, kv, cacheKey, limiterVars, attempts, waited,
                   kvOps, grants, calls, grantLog, upstreamLog, requests,
                   stats, sweptAt>>

\* the backoff timer fires and the loop of execute goes round
Wake(p) ==
    /\ pc[p] = "sleep"
    /\ clock >= wakeAt[p]
    /\ wakeAt' = [wakeAt EXCEPT ![p] = 0]
    /\ LoopTop(p, retries[p], attempts[p])
    /\ UNCHANGED <<clock, kv, cache, cacheKey, retries, result, response,
                   kvOps, grants, calls, puts, waited, grantLog, upstreamLog,
                   requests, adminVars>>

Next ==
    \/ Tick
    \/ Jump
    \/ \E p \in Procs, req \in Inbound : Request(p, inatUrl(req))
    \/ \E p \in Procs : KvGet(p)
    \/ \E p \in Procs : Commit(p)
    \/ \E p \in Procs : Invoke(p)
    \/ \E p \in Procs, r \in UpstreamResponses : FetchReturn(p, r)
    \/ \E p \in Procs : FetchFail(p)
    \/ \E p \in Procs : ReadBody(p)
    \/ \E p \in Procs : Wake(p)

Spec == Init /\ [][Next]_vars

\* ---------------------------------------------------------- administration
\* Only the expired entries go.
CacheClear_OnlyExpired ==
    /\ cache' = [k \in {x \in DOMAIN cache : IsFresh(cache[x], clock)}
                    |-> cache[k]]
    /\ cleared' = cleared \cup DOMAIN cache
    /\ UNCHANGED <<clock, kv, pc, cacheKey, limiterVars, response, reply,
                   counterVars, grantLog, upstreamLog, requests, stats, sweptAt>>

\* app.delete("/cache/clear"): cache.clear()
CacheClear ==
    /\ cache' = << >>
    /\ cleared' = cleared \cup DOMAIN cache
    /\ UNCHANGED <<clock, kv, pc, cacheKey, limiterVars, response, reply,
                   counterVars, grantLog, upstreamLog, requests, stats, sweptAt>>

\* The estimate is not clamped at zero.
QueueWaitEstimate_NoClamp(t, last) == minInterval - (t - last)

\* Math.max(0, this.minInterval - (now - lastRequest))
QueueWaitEstimate(t, last) ==
    IF minInterval - (t - last) > 0 THEN minInterval - (t - last) ELSE 0

\* globalRateLimiter.getStats(), called by app.get("/cache/stats")
GetStats ==
    /\ stats' = [lastRequest |-> lastRequest(kv),
                 queueWaitEstimate |-> QueueWaitEstimate(clock, lastRequest(kv)),
                 called |-> TRUE]
    /\ UNCHANGED <<clock, kv, cache, pc, cacheKey, limiterVars, response,
                   reply, counterVars, grantLog, upstreamLog, requests,
                   cleared, sweptAt>>

\* The sweep also drops the entry that is exactly CACHE_DURATION old.
cleanExpiredCache_Inclusive(c, t) ==
    [k \in {x \in DOMAIN c : ~(t - c[x].timestamp >= CACHE_DURATION)} |-> c[k]]

\* for each entry: if (now - value.timestamp > CACHE_DURATION) cache.delete(key)
cleanExpiredCache(c, t) ==
    [k \in {x \in DOMAIN c : ~(t - c[x].timestamp > CACHE_DURATION)} |-> c[k]]

\* app.get("/health"): cleanExpiredCache(), then the reply with its timestamp
HealthSweep ==
    /\ cache' = cleanExpiredCache(cache, clock)
    /\ sweptAt' = clock
    /\ UNCHANGED <<clock, kv, pc, cacheKey, limiterVars, response, reply,
                   counterVars, grantLog, upstreamLog, requests, cleared,
                   stats>>

\* The relay together with the health check.
NextSweep == Next \/ HealthSweep

SweepSpec == Init /\ [][NextSweep]_vars

\* The relay together with the route that clears the cache.
NextClear == Next \/ CacheClear

ClearSpec == Init /\ [][NextClear]_vars

\* The relay together with the route that reports the statistics.
NextStats == Next \/ GetStats

StatsSpec == Init /\ [][NextStats]_vars

\* ---------------------------------------------------------------- progress
\* Time does not stop while a backoff timer is pending.
TimerTick ==
    /\ \E p \in Procs : pc[p] = "sleep" /\ clock < wakeAt[p]
    /\ clock' = clock + TimeStep
    /\ UNCHANGED <<kv, cache, pc, cacheKey, limiterVars, response, reply,
                   counterVars, grantLog, upstreamLog, requests, adminVars>>

\* The awaited operation of handler p (kv.get, commit, fn, response.text,
\* setTimeout) completes and p runs on to its next await or to its return.
Progress(p) ==
    \/ KvGet(p)
    \/ Commit(p)
    \/ Invoke(p)
    \/ \E r \in UpstreamResponses : FetchReturn(p, r)
    \/ FetchFail(p)
    \/ ReadBody(p)
    \/ Wake(p)

NextLive == Next \/ TimerTick

LiveSpec ==
    /\ Init /\ [][NextLive]_vars
    /\ WF_vars(TimerTick)
    /\ \A p \in Procs : WF_vars(Progress(p))

\* ------------------------------------------------------------------ claims
Abs(x) == IF x < 0 THEN 0 - x ELSE x

RateLimited(p) == reply[p] = ErrorReply(RateLimitMessage)

\* A step in which handler p took a new request in (and which shows on p).
Took(p) ==
    /\ requests' # requests
    /\ reply'[p] # reply[p] \/ cacheKey'[p] # cacheKey[p] \/ pc'[p] # pc[p]

\* C1: any two committed updates of the shared timestamp wrote values at
\* least minInterval apart, and no two of them were made on the same
\* versionstamp read: of the callers that read one stored version at most
\* one is granted.
C1_GrantsSpaced ==
    \A i, j \in 1 .. Len(grantLog) :
        i < j => /\ Abs(grantLog[j].value - grantLog[i].value) >= minInterval
                 /\ grantLog[i].read # grantLog[j].read

\* Two grants, the second by a caller that first lost the compare-and-swap
\* to the other one (get, failed commit, get, commit).
C1_Witness ==
    /\ Len(grantLog) = 2
    /\ \E p \in Procs : attempts[p] = 2 /\ kvOps[p] = 4 /\ grants[p] = 1

\* C2: any two upstream fetches are started at least minInterval apart in
\* real time.
C2_UpstreamSpaced ==
    \A i, j \in 1 .. Len(upstreamLog) :
        i < j => upstreamLog[j] - upstreamLog[i] >= minInterval

\* C3: an execute call makes at most maxRetries acquisition attempts, and
\* it fails with the rate-limit error exactly when maxRetries attempts were
\* made and none succeeded; the action was then never invoked.
C3_ExhaustsAfterMaxRetries ==
    \A p \in Procs :
        /\ attempts[p] <= maxRetries
        /\ retries[p] <= attempts[p]
        /\ RateLimited(p) =>
              /\ attempts[p] = maxRetries
              /\ retries[p] = maxRetries
              /\ grants[p] = 0
              /\ calls[p] = 0
        /\ (pc[p] = "done" /\ retries[p] = maxRetries /\ grants[p] = 0)
              => RateLimited(p)

C3_Witness ==
    \E p \in Procs : RateLimited(p) /\ pc[p] = "done"

\* C4: a request served from the cache makes no read or commit on the
\* rate-limit record and no upstream call, and the step that serves it
\* leaves the record, the cache and the upstream untouched.
C4_HitTouchesNothing ==
    [][\A p \in Procs :
          (Took(p) /\ reply'[p].xcache = "HIT") =>
              /\ kv' = kv
              /\ cache' = cache
              /\ grantLog' = grantLog
              /\ upstreamLog' = upstreamLog
              /\ kvOps'[p] = 0 /\ attempts'[p] = 0
              /\ grants'[p] = 0 /\ calls'[p] = 0
              /\ pc'[p] = "done"]_vars

\* A hit served while the rate-limit record holds a timestamp.
C4_Witness ==
    \E p \in Procs :
        /\ reply[p].xcache = "HIT" /\ pc[p] = "done"
        /\ kv.present /\ cacheKey[p] \in DOMAIN cache

\* C5: every upstream call of a request comes after a commit of that same
\* request that succeeded.
C5_CallAfterGrant ==
    /\ \A p \in Procs :
          /\ calls[p] <= grants[p]
          /\ pc[p] \in {"fetch", "text"} => grants[p] >= 1
    /\ Len(upstreamLog) <= Len(grantLog)

C5_Witness ==
    \E p \in Procs : pc[p] = "fetch" /\ calls[p] = 1 /\ grants[p] = 1

\* C6: a request that ends in failure made no cache.set, and a cache key
\* gets a new entry only in the step that ends a request for that key with
\* the fresh payload: the step that ends a request in failure leaves the
\* cache as it was.
C6_FailureCachesNothing ==
    /\ [](\A p \in Procs : reply[p].status = 500 => puts[p] = 0)
    /\ [][/\ \A k \in DOMAIN cache' :
               (k \notin DOMAIN cache \/ cache'[k] # cache[k]) =>
                   \E p \in Procs : /\ cacheKey[p] = k
                                    /\ pc[p] = "text" /\ pc'[p] = "done"
                                    /\ reply'[p].xcache = "MISS"
                                    /\ reply'[p].status = 200
          /\ \A p \in Procs :
               (reply'[p].status = 500 /\ reply[p].status # 500) =>
                   cache' = cache]_vars

\* A request failed on a non-success status of the upstream and its key has
\* no entry.
C6_Witness ==
    \E p \in Procs :
        /\ reply[p] = ErrorReply(UpstreamMessage) /\ calls[p] = 1
        /\ cacheKey[p] \notin DOMAIN cache

\* C7: what cache.set stored is the payload and content type replied fresh,
\* and a lookup that finds the entry within CACHE_DURATION replies exactly
\* the stored payload and content type.
C7_RoundTrip ==
    [][\A p \in Procs :
          /\ (pc[p] = "text" /\ reply'[p].xcache = "MISS") =>
                /\ cacheKey[p] \in DOMAIN cache'
                /\ cache'[cacheKey[p]].data = response[p].body
                /\ cache'[cacheKey[p]].headers = reply'[p].contentType
                /\ cache'[cacheKey[p]].timestamp = clock
                /\ reply'[p].body = response[p].body
          /\ (Took(p) /\ reply'[p].xcache = "HIT") =>
                /\ cacheKey'[p] \in DOMAIN cache
                /\ reply'[p].body = cache[cacheKey'[p]].data
                /\ reply'[p].contentType = cache[cacheKey'[p]].headers
                /\ reply'[p].status = 200]_vars

\* A hit that serves an entry stored with a content type of the upstream.
C7_Witness ==
    \E p \in Procs :
        /\ reply[p].xcache = "HIT" /\ reply[p].body = "b2"
        /\ reply[p].contentType = "text/csv"

\* C8: a lookup made when now - timestamp >= CACHE_DURATION takes the miss
\* path, also when the difference is exactly CACHE_DURATION; an entry is
\* served only while now - timestamp < CACHE_DURATION.
C8_ExpiredIsMiss ==
    [][\A p \in Procs :
          Took(p) =>
            LET k == cacheKey'[p] IN
              /\ (k \in DOMAIN cache
                    /\ clock - cache[k].timestamp >= CACHE_DURATION)
                   => (reply'[p].xcache # "HIT" /\ pc'[p] = "get")
              /\ reply'[p].xcache = "HIT"
                   => (k \in DOMAIN cache
                         /\ clock - cache[k].timestamp < CACHE_DURATION)]_vars

\* A lookup at the exact end of the entry's lifetime went to the limiter.
C8_Witness ==
    \E p \in Procs :
        /\ pc[p] = "get" /\ cacheKey[p] \in DOMAIN cache
        /\ clock - cache[cacheKey[p]].timestamp = CACHE_DURATION

\* C9: within one execute call the action is invoked at most once and only
\* after that call's own successful commit; once the slot is granted there
\* is no further acquisition attempt, whatever the action does, and the
\* action's failure is what the caller gets.
C9_ActionOnce ==
    /\ [](\A p \in Procs :
            /\ calls[p] <= 1 /\ grants[p] <= 1 /\ calls[p] <= grants[p]
            /\ grants[p] = 1 => pc[p] \in {"granted", "fetch", "text", "done"}
            /\ pc[p] = "granted" => calls[p] = 0
            /\ (calls[p] = 1 /\ pc[p] = "done") =>
                  (reply[p].xcache = "MISS" \/
                   reply[p] \in {ErrorReply(UpstreamMessage),
                                 ErrorReply(TransportMessage)}))
    /\ [][\A p \in Procs :
            /\ (grants[p] = 1 /\ requests' = requests) =>
                  /\ attempts'[p] = attempts[p] /\ kvOps'[p] = kvOps[p]
                  /\ grants'[p] = 1 /\ retries'[p] = retries[p]
            /\ (pc[p] = "fetch" /\ pc'[p] = "text") =>
                  (response'[p] \in UpstreamResponses /\ response'[p].ok)]_vars

\* The action failed after a grant on the first attempt.
C9_Witness ==
    \E p \in Procs :
        /\ reply[p] = ErrorReply(TransportMessage)
        /\ calls[p] = 1 /\ grants[p] = 1 /\ attempts[p] = 1

\* C10: while a single request has been taken in and the record holds no
\* timestamp or only that request's own, the call never backs off: it is
\* on its first attempt and, once it committed, goes on to invoke the action.
C10_FirstCallImmediate ==
    requests = 1 =>
        \A p \in Procs :
            pc[p] # "idle" =>
                /\ attempts[p] = 1 /\ retries[p] = 0
                /\ pc[p] \in {"get", "commit", "granted", "fetch", "text", "done"}
                /\ ~RateLimited(p)
                /\ pc[p] \in {"granted", "fetch", "text", "done"}
                      <=> (kv.present /\ grants[p] = 1)
                /\ pc[p] \in {"fetch", "text", "done"} <=> calls[p] = 1

\* The first call holds the slot after one get and one commit, the record
\* having been absent.
C10_Witness ==
    /\ requests = 1
    /\ \E p \in Procs :
          /\ pc[p] = "fetch" /\ kvOps[p] = 2 /\ attempts[p] = 1
          /\ grantLog = <<[value |-> kv.value, read |-> 0]>>

\* C11: the stored timestamp never decreases: every change of the record is
\* a commit that bumps the versionstamp and writes a value at least
\* minInterval above the value it replaces (above 0 when there was none).
C11_TimestampMonotonic ==
    [][kv' # kv =>
          /\ kv'.present
          /\ kv'.versionstamp = kv.versionstamp + 1
          /\ kv'.value >= lastRequest(kv) + minInterval
          /\ kv.present => kv'.value >= kv.value]_vars

\* A commit replaced an earlier timestamp by a later one.
C11_Witness ==
    /\ Len(grantLog) = 2
    /\ kv.value = grantLog[2].value
    /\ grantLog[2].value > grantLog[1].value

\* C12: the waits of one execute call are retryDelay + r * 50 ms for
\* r = 1, 2, ..., each 50 ms longer than the one before, and a call that
\* exhausts its retries has waited maxRetries * retryDelay
\* + 50 * maxRetries * (maxRetries + 1) / 2 ms in all; with 30 retries that
\* is 26250 ms.
BackoffSum(n) ==
    n * RetryDelayMs + (BackoffStepMs * n * (n + 1)) \div 2

RECURSIVE TotalWaitMs(_)
TotalWaitMs(n) == IF n = 0 THEN 0 ELSE TotalWaitMs(n - 1) + waitTime(n) * Unit

C13_Terminates ==
    \A p \in Procs : (pc[p] \notin {"idle", "done"}) ~> (pc[p] = "done")

\* One call has given up and another has run its action to the end.
C13_Witness ==
    \E p, q \in Procs :
        /\ pc[p] = "done" /\ RateLimited(p)
        /\ pc[q] = "done" /\ calls[q] = 1

Kind(r) == <<r.status, r.error>>

UpstreamFailed(p) ==
    reply[p] \in {ErrorReply(UpstreamMessage), ErrorReply(TransportMessage)}

\* C15: a request whose acquisition is exhausted ends in a failure, never
\* having called the upstream, and its response differs in kind from the
\* response of a request that failed at the upstream.
C15_ExhaustionDistinct ==
    \A p \in Procs :
        RateLimited(p) =>
            /\ pc[p] = "done"
            /\ calls[p] = 0
            /\ \A q \in Procs :
                   UpstreamFailed(q) => Kind(reply[p]) # Kind(reply[q])
\* Same path and the same set of query parameters, in whatever order.
SameResource(a, b) ==
    /\ a.path = b.path
    /\ {a.query[i] : i \in DOMAIN a.query} = {b.query[i] : i \in DOMAIN b.query}

\* C16: two inbound requests with the same path and the same set of query
\* parameters have the same cache key whatever the order of the parameters,
\* so a request is served from the unexpired entry that a request for the
\* same resource cached.
C16_KeyOrderIndependent ==
    [][\A p \in Procs : \A a, b \in Inbound :
          ( /\ SameResource(a, b)
            /\ Took(p) /\ cacheKey'[p] = inatUrl(b)
            /\ inatUrl(a) \in DOMAIN cache
            /\ clock - cache[inatUrl(a)].timestamp < CACHE_DURATION )
          => /\ cacheKey'[p] = inatUrl(a)
             /\ reply'[p].xcache = "HIT"]_vars
\* A structured error response: an error status, a kind and a message.
IsErrorResponse(r) ==
    /\ r.status >= 400
    /\ r.error # "" /\ r.message # ""
    /\ r.xcache = ""

IsSuccessResponse(r) ==
    /\ r.status = 200
    /\ r.xcache \in {"HIT", "MISS"}
    /\ r.error = "" /\ r.message = ""

\* C17: a handler that has ended has returned a response, a success or a
\* structured error. Every way of failing ends the handler with a
\* structured error: the upstream answering non-ok or the fetch failing
\* (the handler was waiting for the upstream), and the limiter running out
\* of attempts (the handler had not called the upstream). A success is
\* reported only for a hit or for a body read from an ok upstream response.
C17_FailuresReturned ==
    /\ [](\A p \in Procs :
             pc[p] = "done" =>
                 IsErrorResponse(reply[p]) \/ IsSuccessResponse(reply[p]))
    /\ [][\A p \in Procs :
             (pc'[p] = "done" /\ (pc[p] # "done" \/ Took(p))) =>
                 /\ (pc[p] = "fetch" /\ ~Took(p)) =>
                        /\ IsErrorResponse(reply'[p])
                        /\ reply'[p].message \in {UpstreamMessage, TransportMessage}
                 /\ (pc[p] \in {"get", "commit", "sleep"} /\ ~Took(p)) =>
                        /\ IsErrorResponse(reply'[p])
                        /\ reply'[p].message = RateLimitMessage
                        /\ retries'[p] = maxRetries /\ calls[p] = 0
                 /\ reply'[p].status = 200 =>
                        \/ reply'[p].xcache = "HIT" /\ Took(p)
                        \/ /\ reply'[p].xcache = "MISS"
                           /\ pc[p] = "text" /\ response[p].ok]_vars

\* One handler ran out of attempts and the other's fetch failed; both ended
\* with a structured error.
C17_Witness ==
    \E p, q \in Procs :
        /\ pc[p] = "done" /\ pc[q] = "done"
        /\ RateLimited(p)
        /\ reply[q] = ErrorReply(TransportMessage)
\* C18: a call of getStats leaves the stored timestamp, its versionstamp and
\* the cache as they were, and returns the stored timestamp (0 when none has
\* been recorded) with the estimate max(0, minInterval - (now - timestamp)),
\* which is 0 when no timestamp has been recorded.
C18_StatsReadOnly ==
    [][stats' # stats =>
          LET last == IF kv.present THEN kv.value ELSE 0
              left == minInterval - (clock - last)
          IN /\ kv' = kv
             /\ cache' = cache
             /\ stats'.lastRequest = last
             /\ stats'.queueWaitEstimate = (IF left > 0 THEN left ELSE 0)
             /\ ~kv.present => stats'.queueWaitEstimate = 0]_vars

\* getStats was called less than minInterval after a grant and told the
\* time left; the record and the cached entry are still there.
C18_Witness ==
    /\ stats.called
    /\ kv.present /\ stats.lastRequest = kv.value
    /\ stats.queueWaitEstimate > 0
    /\ stats.queueWaitEstimate < minInterval
    /\ cache # << >>
\* C19: a put leaves the store with one entry for its key, made of the
\* writer's payload, content type and time of writing and of nothing from
\* the entry it replaces, and leaves the entry of every other key as it was;
\* an entry that is in the store changes only by such a put. So when
\* several handlers miss on one key and each reads its upstream response,
\* the key holds the entry of whichever put last.
C19_LastWriterWins ==
    [][/\ \A p \in Procs :
            puts'[p] = puts[p] + 1 =>
                LET k == cacheKey[p] IN
                /\ DOMAIN cache' = DOMAIN cache \cup {k}
                /\ cache'[k] =
                       [data |-> response[p].body,
                        timestamp |-> clock,
                        headers |-> IF response[p].ctype = ""
                                    THEN DefaultContentType
                                    ELSE response[p].ctype]
                /\ \A x \in DOMAIN cache \ {k} : cache'[x] = cache[x]
       /\ \A k \in DOMAIN cache \cap DOMAIN cache' :
            cache'[k] # cache[k] =>
                \E p \in Procs : puts'[p] = puts[p] + 1 /\ cacheKey[p] = k]_vars

\* Two handlers missed on one key and were answered different bodies with
\* different content types; the store holds one entry, in whole that of one
\* of them.
C19_Witness ==
    \E p, q \in Procs :
        /\ p # q /\ cacheKey[p] = cacheKey[q]
        /\ pc[p] = "done" /\ pc[q] = "done"
        /\ puts[p] = 1 /\ puts[q] = 1
        /\ reply[p].body # reply[q].body
        /\ reply[p].contentType # reply[q].contentType
        /\ DOMAIN cache = {cacheKey[q]}
        /\ cache[cacheKey[q]].data = reply[q].body
        /\ cache[cacheKey[q]].headers = reply[q].contentType
\* C20: a handler whose action failed after its grant leaves the shared
\* record as its grant or a later one set it: the failing step writes
\* nothing, and once a handler has ended in failure after a grant the record
\* still holds the value of the latest grant. A caller that reads the
\* record less than minInterval after the value it holds is refused: it
\* goes to its backoff having written nothing.
C20_SlotConsumed ==
    /\ [](\A p \in Procs :
             (pc[p] = "done" /\ grants[p] = 1 /\ reply[p].status = 500) =>
                 /\ kv.present
                 /\ grantLog # << >>
                 /\ kv.value = grantLog[Len(grantLog)].value)
    /\ [][/\ \A p \in Procs :
               ( /\ pc[p] \in {"fetch", "text"}
                 /\ pc'[p] = "done" /\ reply'[p].status = 500 ) =>
                   /\ grants[p] = 1 /\ grants'[p] = 1
                   /\ kv' = kv /\ kv.present
          /\ \A q \in Procs :
               ( /\ pc[q] = "get" /\ kvOps'[q] = kvOps[q] + 1
                 /\ kv.present /\ clock - kv.value < minInterval ) =>
                   /\ pc'[q] = "sleep"
                   /\ grants'[q] = grants[q]
                   /\ kv' = kv]_vars

\* One handler's fetch failed after its grant; the other read the record
\* less than minInterval after that grant and is in its backoff, and the
\* record still holds the one grant.
C20_Witness ==
    \E p, q \in Procs :
        /\ pc[p] = "done" /\ grants[p] = 1
        /\ reply[p] = ErrorReply(TransportMessage)
        /\ pc[q] = "sleep" /\ kvOps[q] = 1 /\ grants[q] = 0
        /\ Len(grantLog) = 1 /\ kv.value = grantLog[1].value
        /\ clock - kv.value < minInterval
\* C21: the sweep run by the health check removes exactly the entries that
\* a lookup treats as expired: right after a sweep at time t every entry in
\* the store has t - timestamp < CACHE_DURATION, and every entry that had
\* t - timestamp < CACHE_DURATION before the sweep is still there.
C21_SweepMatchesLookup ==
    /\ [](sweptAt = clock =>
             \A k \in DOMAIN cache : clock - cache[k].timestamp < CACHE_DURATION)
    /\ [][sweptAt' # sweptAt =>
             \A k \in DOMAIN cache :
                 clock - cache[k].timestamp < CACHE_DURATION =>
                     k \in DOMAIN cache' /\ cache'[k] = cache[k]]_vars

\* C21, amended: the sweep removes the entries older than CACHE_DURATION
\* and no others: right after a sweep at time t every entry in the store
\* has t - timestamp <= CACHE_DURATION, every entry that had
\* t - timestamp <= CACHE_DURATION before the sweep is still there as it
\* was, and every entry removed is one a lookup treats as expired. The
\* entry that is exactly CACHE_DURATION old is expired for a lookup and
\* stays in the store.
C21_SweepRemovesOlder ==
    /\ [](sweptAt = clock =>
             \A k \in DOMAIN cache : clock - cache[k].timestamp <= CACHE_DURATION)
    /\ [][sweptAt' # sweptAt =>
             /\ DOMAIN cache' \subseteq DOMAIN cache
             /\ kv' = kv
             /\ \A k \in DOMAIN cache :
                    /\ clock - cache[k].timestamp <= CACHE_DURATION =>
                           k \in DOMAIN cache' /\ cache'[k] = cache[k]
                    /\ clock - cache[k].timestamp > CACHE_DURATION =>
                           k \notin DOMAIN cache'
                    /\ k \notin DOMAIN cache' =>
                           clock - cache[k].timestamp >= CACHE_DURATION]_vars

\* The health check has just swept and the store still holds an entry that
\* is exactly CACHE_DURATION old.
C21_Witness ==
    /\ sweptAt = clock
    /\ \E k \in DOMAIN cache : clock - cache[k].timestamp = CACHE_DURATION
====
